---- MODULE Spec2Model ----
(***************************************************************************)
(* Model of src/check.ts: the dispatcher `check` of the publish bot, its   *)
(* three validators, and the collaborators it imports from ./utils         *)
(* (checkLabel, extractIssueNumberFromRef, extractInfo, publishComment).   *)
(*                                                                         *)
(* JavaScript runs each piece of synchronous code to completion: the       *)
(* actions below are the statements of `check` and of the validators, and  *)
(* the replies of the external API are delivered only while no code of     *)
(* the run is on the stack (the run is parked on an await or has ended).   *)
(*                                                                         *)
(* Strings are atomic values, a text is a sequence of such values, and a   *)
(* nullable value is None or Some(v).  The messages of the source are      *)
(* written in ASCII: the source has them in Chinese.                       *)
(***************************************************************************)
EXTENDS Integers, Sequences, FiniteSets, TLC

VARIABLES
    payload,        \* github.context.payload
    pc,             \* position of check()
    issueType,      \* local of check, line 16
    issue_number,   \* local of check, line 19
    issue,          \* local of check, line 24: the reply of issues.get
    info,           \* local of check, line 28
    checkPromise,   \* the promise check() returns
    getCall,        \* the octokit.issues.get request
    commentCall,    \* the createComment request made by publishComment
    validatorPromise, \* the promise the invoked validator returns
    calls           \* every call and reply of the run, in order

vars == <<payload, pc, issueType, issue_number, issue, info, checkPromise,
          getCall, commentCall, validatorPromise, calls>>

----------------------------------------------------------------------------
(* Bounds *)
MaxLabels == 2
MaxRefLen == 3
MaxBodyLen == 2

----------------------------------------------------------------------------
(* Nullable values *)
None == [tag |-> "null"]
Some(v) == [tag |-> "some", val |-> v]
IsNull(o) == o.tag = "null"

SeqsUpTo(S, n) == UNION {[1..k -> S] : k \in 0..n}

Min(S) == CHOOSE x \in S : \A y \in S : x <= y

----------------------------------------------------------------------------
(* Input domains *)
ExtensionType == {"Bot", "Adapter", "Plugin"}
LabelNames == ExtensionType \cup {"bug"}

IssuePrefix == "issue-"
Digits == {"0", "4"}
RefChars == {IssuePrefix, "x"} \cup Digits

NameMarker == "name:"
BodyTokens == {NameMarker, "echo-plugin"}
Logins == {"alice", ""}

PullRequests ==
    {None} \cup
    {Some([labels |-> l, head |-> [ref |-> r]]) :
        l \in {None} \cup {Some(s) : s \in SeqsUpTo(LabelNames, MaxLabels)},
        r \in SeqsUpTo(RefChars, MaxRefLen)}

Users == {None} \cup {Some([login |-> None])}
              \cup {Some([login |-> Some(a)]) : a \in Logins}

IssueData ==
    {[body |-> b, user |-> u] :
        b \in {None} \cup {Some(s) : s \in SeqsUpTo(BodyTokens, MaxBodyLen)},
        u \in Users}

----------------------------------------------------------------------------
(* ./utils *)

\* checkLabel(labels): the first label that names an extension type
checkLabel(labels) ==
    IF IsNull(labels) THEN None
    ELSE LET l == labels.val
             hits == {i \in 1..Len(l) : l[i] \in ExtensionType}
         IN IF hits = {} THEN None ELSE Some(l[Min(hits)])

DigitValue(d) == CASE d = "0" -> 0 [] d = "4" -> 4 [] OTHER -> 0

RECURSIVE DecimalValue(_)
DecimalValue(ds) ==
    IF ds = <<>> THEN 0
    ELSE 10 * DecimalValue(SubSeq(ds, 1, Len(ds) - 1)) + DigitValue(ds[Len(ds)])

\* extractIssueNumberFromRef(ref): the digits after the fixed prefix
extractIssueNumberFromRef(ref) ==
    IF IsNull(ref) THEN None
    ELSE LET r == ref.val IN
         IF /\ Len(r) >= 2
            /\ r[1] = IssuePrefix
            /\ \A i \in 2..Len(r) : r[i] \in Digits
            /\ DecimalValue(Tail(r)) > 0
         THEN Some(DecimalValue(Tail(r)))
         ELSE None

\* the name a body declares: what follows its first name marker
ExtractName(body) ==
    LET marks == {i \in 1..Len(body) : body[i] = NameMarker /\ i < Len(body)}
    IN IF marks = {} THEN "" ELSE body[Min(marks) + 1]

\* extractInfo(type, body, author)
extractInfo(type, body, author) ==
    [type |-> type, name |-> ExtractName(body), author |-> author]

\* publishComment(octokit, issue_number, body): one createComment request
publishComment(n, text) ==
    [op |-> "createComment", arg |-> [issue_number |-> n, body |-> text]]

----------------------------------------------------------------------------
Event(op, arg) == [op |-> op, arg |-> arg]

SkippedMessage == "pull request unrelated to plugins, skipped"
FailedMessage == "cannot get the issue"

Init ==
    /\ payload \in {[pull_request |-> p] : p \in PullRequests}
    /\ pc = "l16"
    /\ issueType = None
    /\ issue_number = None
    /\ issue = None
    /\ info = None
    /\ checkPromise = "pending"
    /\ getCall = [state |-> "none"]
    /\ commentCall = "none"
    /\ validatorPromise = "none"
    /\ calls = <<>>

\* payload.pull_request?.labels
PayloadLabels ==
    IF IsNull(payload.pull_request) THEN None
    ELSE payload.pull_request.val.labels

\* payload.pull_request?.head.ref
PayloadRef ==
    IF IsNull(payload.pull_request) THEN None
    ELSE Some(payload.pull_request.val.head.ref)

\* `if (issueType)`: a string is truthy unless it is null or empty
Truthy(t) == ~IsNull(t) /\ t.val # ""

\* `!issue_number`: null and 0 are falsy
Falsy(n) == IsNull(n) \/ n.val = 0

\* the branch of line 17 taken whatever the label
LabelBranchAlways(t) == "l18"

\* line 17: the branch on issueType
LabelBranch(t) == IF Truthy(t) THEN "l18" ELSE "l46"

\* line 20 returning without the failure signal
IssueBranchSilent(n) == IF Falsy(n) THEN "l48" ELSE "l24"

\* line 20: the branch on issue_number
IssueBranch(n) == IF Falsy(n) THEN "l21" ELSE "l24"

\* line 30: issue.data.body ?? ''
BodyArg(data) == IF IsNull(data.body) THEN <<>> ELSE data.body.val

\* line 31 without the `?? ''`, the absent login rendered as text
AuthorArgNoDefault(data) ==
    IF IsNull(data.user) THEN "undefined"
    ELSE IF IsNull(data.user.val.login) THEN "undefined"
    ELSE data.user.val.login.val

\* line 31: issue.data.user?.login ?? ''
AuthorArg(data) ==
    IF IsNull(data.user) THEN ""
    ELSE IF IsNull(data.user.val.login) THEN ""
    ELSE data.user.val.login.val

\* line 56 with a text that leaves the name out
CommentTextFixed(name) == <<"plugin ", " is fine">>

\* line 56: the text of the comment
CommentText(name) == <<"plugin ", name, " is fine">>

\* lines 50-57, up to the await
checkPlugin(i, n) ==
    << Event("checkPlugin", i),
       Event("core.info", <<"plugin ", i.name>>),
       publishComment(n, CommentText(i.name)) >>

\* lines 58-60 with the comment of checkPlugin copied in
checkBotCommenting(i) ==
    << Event("checkBot", i),
       Event("core.info", <<"bot ", i.name>>),
       publishComment(0, CommentText(i.name)) >>

\* lines 58-60
checkBot(i) ==
    << Event("checkBot", i),
       Event("core.info", <<"bot ", i.name>>) >>

\* lines 61-66
checkAdapter(i) ==
    << Event("checkAdapter", i),
       Event("core.info", <<"adapter ", i.name>>) >>

\* lines 34-44 with the Adapter case calling checkBot
SwitchCaseWrongArm(i, n) ==
    CASE i.type = "Bot" -> checkBot(i)
      [] i.type = "Adapter" -> checkBot(i)
      [] i.type = "Plugin" -> checkPlugin(i, n)
      [] OTHER -> <<>>

\* lines 34-44: the switch on info.type
SwitchCase(i, n) ==
    CASE i.type = "Bot" -> checkBot(i)
      [] i.type = "Adapter" -> checkAdapter(i)
      [] i.type = "Plugin" -> checkPlugin(i, n)
      [] OTHER -> <<>>

Posts(evs) == \E k \in 1..Len(evs) : evs[k].op = "createComment"

\* no code of the run is on the stack
Parked == pc \in {"await24", "done"}

----------------------------------------------------------------------------
(* check(), lines 14-48 *)

\* lines 16-17
Classify ==
    /\ pc = "l16"
    /\ issueType' = checkLabel(PayloadLabels)
    /\ calls' = Append(calls, Event("checkLabel", PayloadLabels))
    /\ pc' = LabelBranch(issueType')
    /\ UNCHANGED <<payload, issue_number, issue, info, checkPromise, getCall,
                   commentCall, validatorPromise>>

\* lines 45-48
Skip ==
    /\ pc = "l46"
    /\ calls' = Append(calls, Event("core.info", <<SkippedMessage>>))
    /\ checkPromise' = "fulfilled"
    /\ pc' = "done"
    /\ UNCHANGED <<payload, issueType, issue_number, issue, info, getCall,
                   commentCall, validatorPromise>>

\* lines 18-20
ParseRef ==
    /\ pc = "l18"
    /\ issue_number' = extractIssueNumberFromRef(PayloadRef)
    /\ calls' = Append(calls, Event("extractIssueNumberFromRef", PayloadRef))
    /\ pc' = IssueBranch(issue_number')
    /\ UNCHANGED <<payload, issueType, issue, info, checkPromise, getCall,
                   commentCall, validatorPromise>>

\* lines 21-22
FailNoIssue ==
    /\ pc = "l21"
    /\ calls' = Append(calls, Event("core.setFailed", <<FailedMessage>>))
    /\ checkPromise' = "fulfilled"
    /\ pc' = "done"
    /\ UNCHANGED <<payload, issueType, issue_number, issue, info, getCall,
                   commentCall, validatorPromise>>

\* lines 24-27: the request is sent and check waits for the reply
IssueFetch ==
    /\ pc = "l24"
    /\ calls' = Append(calls, Event("issues.get", issue_number))
    /\ getCall' = [state |-> "pending"]
    /\ pc' = "await24"
    /\ UNCHANGED <<payload, issueType, issue_number, issue, info, checkPromise,
                   commentCall, validatorPromise>>

\* lines 24, 28-32 without the await: the record is built before the reply
ExtractNoAwait ==
    /\ pc = "await24"
    /\ getCall.state \in {"pending", "fulfilled"}
    /\ LET data == IF getCall.state = "fulfilled" THEN getCall.data
                   ELSE [body |-> None, user |-> None] IN
        /\ issue' = Some(data)
        /\ info' = Some(extractInfo(issueType.val, BodyArg(data), AuthorArg(data)))
        /\ calls' = Append(calls,
                       Event("extractInfo", [type |-> issueType.val,
                                             body |-> BodyArg(data),
                                             author |-> AuthorArg(data)]))
    /\ pc' = "l34"
    /\ UNCHANGED <<payload, issueType, issue_number, checkPromise, getCall,
                   commentCall, validatorPromise>>

\* lines 24, 28-32: check resumes with the reply and builds the record
Extract ==
    /\ pc = "await24"
    /\ getCall.state = "fulfilled"
    /\ issue' = Some(getCall.data)
    /\ info' = Some(extractInfo(issueType.val, BodyArg(getCall.data),
                                AuthorArg(getCall.data)))
    /\ calls' = Append(calls,
                   Event("extractInfo", [type |-> issueType.val,
                                         body |-> BodyArg(getCall.data),
                                         author |-> AuthorArg(getCall.data)]))
    /\ pc' = "l34"
    /\ UNCHANGED <<payload, issueType, issue_number, checkPromise, getCall,
                   commentCall, validatorPromise>>

\* line 24 inside a try/catch that swallows the rejection
FetchSwallow ==
    /\ pc = "await24"
    /\ getCall.state = "rejected"
    /\ checkPromise' = "fulfilled"
    /\ pc' = "done"
    /\ UNCHANGED <<payload, issueType, issue_number, issue, info, getCall,
                   commentCall, validatorPromise, calls>>

\* line 24: the await rethrows a rejection, which nothing in check catches
FetchThrow ==
    /\ pc = "await24"
    /\ getCall.state = "rejected"
    /\ checkPromise' = "rejected"
    /\ pc' = "done"
    /\ UNCHANGED <<payload, issueType, issue_number, issue, info, getCall,
                   commentCall, validatorPromise, calls>>

\* lines 34-44: the validator runs up to its first await; its promise is dropped
Dispatch ==
    /\ pc = "l34"
    /\ LET evs == SwitchCase(info.val, issue_number.val) IN
        /\ calls' = calls \o evs
        /\ commentCall' = IF Posts(evs) THEN "pending" ELSE commentCall
        /\ validatorPromise' = IF Posts(evs) THEN "pending"
                               ELSE IF evs = <<>> THEN "none" ELSE "fulfilled"
    /\ pc' = "l48"
    /\ UNCHANGED <<payload, issueType, issue_number, issue, info, checkPromise,
                   getCall>>

\* line 48: check returns
Return ==
    /\ pc = "l48"
    /\ checkPromise' = "fulfilled"
    /\ pc' = "done"
    /\ UNCHANGED <<payload, issueType, issue_number, issue, info, getCall,
                   commentCall, validatorPromise, calls>>

\* line 56: checkPlugin resumes when publishComment settles
PluginResume ==
    /\ Parked
    /\ validatorPromise = "pending"
    /\ commentCall \in {"fulfilled", "rejected"}
    /\ validatorPromise' = commentCall
    /\ calls' = Append(calls, Event("checkPlugin:" \o commentCall, None))
    /\ UNCHANGED <<payload, pc, issueType, issue_number, issue, info,
                   checkPromise, getCall, commentCall>>

----------------------------------------------------------------------------
(* The external API *)

GetFulfil ==
    /\ Parked
    /\ getCall.state = "pending"
    /\ \E d \in IssueData : getCall' = [state |-> "fulfilled", data |-> d]
    /\ calls' = Append(calls, Event("issues.get:fulfilled", None))
    /\ UNCHANGED <<payload, pc, issueType, issue_number, issue, info,
                   checkPromise, commentCall, validatorPromise>>

GetReject ==
    /\ Parked
    /\ getCall.state = "pending"
    /\ getCall' = [state |-> "rejected"]
    /\ calls' = Append(calls, Event("issues.get:rejected", None))
    /\ UNCHANGED <<payload, pc, issueType, issue_number, issue, info,
                   checkPromise, commentCall, validatorPromise>>

CommentFulfil ==
    /\ Parked
    /\ commentCall = "pending"
    /\ commentCall' = "fulfilled"
    /\ calls' = Append(calls, Event("createComment:fulfilled", None))
    /\ UNCHANGED <<payload, pc, issueType, issue_number, issue, info,
                   checkPromise, getCall, validatorPromise>>

CommentReject ==
    /\ Parked
    /\ commentCall = "pending"
    /\ commentCall' = "rejected"
    /\ calls' = Append(calls, Event("createComment:rejected", None))
    /\ UNCHANGED <<payload, pc, issueType, issue_number, issue, info,
                   checkPromise, getCall, validatorPromise>>

----------------------------------------------------------------------------
Next ==
    \/ Classify
    \/ Skip
    \/ ParseRef
    \/ FailNoIssue
    \/ IssueFetch
    \/ Extract
    \/ FetchThrow
    \/ Dispatch
    \/ Return
    \/ PluginResume
    \/ GetFulfil
    \/ GetReject
    \/ CommentFulfil
    \/ CommentReject

Spec == Init /\ [][Next]_vars

TypeOK ==
    /\ pc \in {"l16", "l18", "l46", "l21", "l24", "await24", "l34", "l48", "done"}
    /\ checkPromise \in {"pending", "fulfilled", "rejected"}
    /\ getCall.state \in {"none", "pending", "fulfilled", "rejected"}
    /\ commentCall \in {"none", "pending", "fulfilled", "rejected"}
    /\ validatorPromise \in {"none", "pending", "fulfilled", "rejected"}
----------------------------------------------------------------------------
(* Properties *)

Ops(op) == {k \in 1..Len(calls) : calls[k].op = op}
Count(op) == Cardinality(Ops(op))

ValidatorOps == {"checkBot", "checkAdapter", "checkPlugin"}
ValidatorCalls == {k \in 1..Len(calls) : calls[k].op \in ValidatorOps}
ValidatorName(t) ==
    CASE t = "Bot" -> "checkBot"
      [] t = "Adapter" -> "checkAdapter"
      [] t = "Plugin" -> "checkPlugin"
      [] OTHER -> "none"

\* what the classifier and the parser answer for the payload of the run
LabelOf == checkLabel(PayloadLabels)
RefNumber == extractIssueNumberFromRef(PayloadRef)

\* every call of b comes after a call of a
Before(a, b) == \A k \in Ops(b) : \E j \in Ops(a) : j < k

\* C1: when checkLabel answers null, the run only logs the skipped message:
\* no fetch, no extraction, no validator, no comment, no failure signal, and
\* it ends fulfilled with that message as its last and only output.
C1_SkipIsNoOp ==
    IsNull(LabelOf) =>
        /\ pc \in {"l16", "l46", "done"}
        /\ \A k \in 1..Len(calls) : calls[k].op \in {"checkLabel", "core.info"}
        /\ getCall.state = "none"
        /\ commentCall = "none"
        /\ validatorPromise = "none"
        /\ IsNull(info)
        /\ pc = "done" =>
            /\ checkPromise = "fulfilled"
            /\ Len(calls) = 2
            /\ calls[2] = Event("core.info", <<SkippedMessage>>)

C1_Witness ==
    /\ pc = "done"
    /\ ~IsNull(payload.pull_request)
    /\ PayloadLabels = Some(<<"bug">>)
    /\ IsNull(LabelOf)
    /\ Count("core.info") = 1

\* C2: when the label names a type and the branch ref yields no issue
\* number, the run ends with core.setFailed and a message, and nothing
\* else is done: no fetch, no record, no validator, no comment.
C2_NoIssueFails ==
    (~IsNull(LabelOf) /\ IsNull(RefNumber)) =>
        /\ pc \in {"l16", "l18", "l21", "done"}
        /\ getCall.state = "none"
        /\ commentCall = "none"
        /\ IsNull(info)
        /\ \A k \in 1..Len(calls) :
              calls[k].op \in {"checkLabel", "extractIssueNumberFromRef",
                               "core.setFailed"}
        /\ pc = "done" =>
            /\ Count("core.setFailed") = 1
            /\ calls[Len(calls)].op = "core.setFailed"
            /\ calls[Len(calls)].arg # <<>>
            /\ calls[Len(calls)].arg # <<"">>

C2_Witness ==
    /\ pc = "done"
    /\ LabelOf = Some("Adapter")
    /\ PayloadRef = Some(<<"x", "4">>)
    /\ IsNull(RefNumber)
    /\ Count("core.setFailed") = 1

\* C3: with a type and an issue number, the issue is fetched exactly once,
\* with the number parsed from the branch, and after a successful fetch
\* exactly one validator is invoked: the one of the record's type, which
\* is the type the classifier produced.
C3_OneFetchOneValidator ==
    (~IsNull(LabelOf) /\ ~IsNull(RefNumber)) =>
        /\ Count("issues.get") <= 1
        /\ pc \in {"await24", "l34", "l48", "done"} =>
            /\ Count("issues.get") = 1
            /\ \A k \in Ops("issues.get") : calls[k].arg = RefNumber
        /\ pc \notin {"l48", "done"} => ValidatorCalls = {}
        /\ Cardinality(ValidatorCalls) <= 1
        /\ (pc \in {"l48", "done"} /\ getCall.state = "fulfilled") =>
            /\ Cardinality(ValidatorCalls) = 1
            /\ info.val.type = LabelOf.val
            /\ \A k \in ValidatorCalls :
                  /\ calls[k].op = ValidatorName(info.val.type)
                  /\ calls[k].arg = info.val

C3_Witness ==
    /\ pc = "done"
    /\ LabelOf = Some("Adapter")
    /\ RefNumber = Some(4)
    /\ Count("issues.get") = 1
    /\ Count("checkAdapter") = 1

\* C4: a run of type Bot or Adapter never posts a comment, and no run
\* makes more than one comment write.
C4_CommentOnlyForPlugin ==
    /\ Count("createComment") <= 1
    /\ (~IsNull(LabelOf) /\ LabelOf.val \in {"Bot", "Adapter"}) =>
          /\ Count("createComment") = 0
          /\ commentCall = "none"
    /\ commentCall # "none" => Count("checkPlugin") = 1

C4_Witness ==
    /\ pc = "done"
    /\ LabelOf = Some("Bot")
    /\ Count("checkBot") = 1
    /\ Count("createComment") = 0

\* C5: in a Plugin run that reaches the validator, the comment goes to the
\* issue number parsed from the branch, the one the fetch used, and its
\* text contains the name extracted from the body of the fetched issue.
C5_CommentTarget ==
    Count("checkPlugin") > 0 =>
        /\ Count("createComment") = 1
        /\ \A k \in Ops("createComment") :
              /\ Some(calls[k].arg.issue_number) = RefNumber
              /\ \A g \in Ops("issues.get") :
                    calls[g].arg = Some(calls[k].arg.issue_number)
              /\ info.val.name = ExtractName(BodyArg(issue.val))
              /\ \E j \in 1..Len(calls[k].arg.body) :
                    calls[k].arg.body[j] = info.val.name

C5_Witness ==
    /\ Count("checkPlugin") = 1
    /\ info.val.name = "echo-plugin"
    /\ \E k \in Ops("createComment") :
          /\ calls[k].arg.issue_number = 40
          /\ \E j \in 1..Len(calls[k].arg.body) :
                calls[k].arg.body[j] = "echo-plugin"

\* C6: check never completes while a network call it started is still
\* outstanding.
C6_CallsAwaited ==
    checkPromise # "pending" =>
        /\ getCall.state # "pending"
        /\ commentCall # "pending"

\* C7: when the comment post fails, the run of check ends in failure.
C7_CommentFailureFailsRun ==
    (commentCall = "rejected" /\ pc = "done") => checkPromise = "rejected"

\* C8: when the issue fetch fails, check rejects, the fetch is not
\* retried, and no record is built, no validator invoked, no comment posted.
C8_FetchFailureFailsRun ==
    getCall.state = "rejected" =>
        /\ pc \in {"await24", "done"}
        /\ Count("issues.get") = 1
        /\ Count("extractInfo") = 0
        /\ ValidatorCalls = {}
        /\ Count("createComment") = 0
        /\ IsNull(info)
        /\ commentCall = "none"
        /\ pc = "done" => checkPromise = "rejected"

C8_Witness ==
    /\ getCall.state = "rejected"
    /\ pc = "done"
    /\ checkPromise = "rejected"

\* C9: the steps come in the order classification, branch parsing, issue
\* fetch, extraction, dispatch, comment write: the fetch is issued only
\* after both the classification and the parse succeeded, and extraction,
\* the validator and the comment post only after the fetch has returned.
C9_StepOrder ==
    /\ Before("checkLabel", "extractIssueNumberFromRef")
    /\ Before("extractIssueNumberFromRef", "issues.get")
    /\ Ops("issues.get") # {} => (Truthy(issueType) /\ ~Falsy(issue_number))
    /\ Before("issues.get", "issues.get:fulfilled")
    /\ Before("issues.get:fulfilled", "extractInfo")
    /\ \A v \in ValidatorOps :
          /\ Before("extractInfo", v)
          /\ Before("issues.get:fulfilled", v)
    /\ Before("checkPlugin", "createComment")
    /\ Before("issues.get:fulfilled", "createComment")
    /\ (Ops("extractInfo") # {} \/ ValidatorCalls # {}) =>
          getCall.state = "fulfilled"

C9_Witness ==
    /\ Count("createComment") = 1
    /\ commentCall = "fulfilled"
    /\ pc = "done"

\* C10: extractInfo is called with the body of the fetched issue, or the
\* empty string when the body is null, and with the login of the issue's
\* user, or the empty string when the user or the login is absent; a
\* missing body or user does not end the run before dispatch.
C10_ExtractorArguments ==
    /\ \A k \in Ops("extractInfo") :
          LET d == issue.val
              a == calls[k].arg IN
          /\ IsNull(d.body) => a.body = <<>>
          /\ ~IsNull(d.body) => a.body = d.body.val
          /\ IsNull(d.user) => a.author = ""
          /\ (~IsNull(d.user) /\ IsNull(d.user.val.login)) => a.author = ""
          /\ (~IsNull(d.user) /\ ~IsNull(d.user.val.login)) =>
                a.author = d.user.val.login.val
          /\ a.author = info.val.author
    /\ (getCall.state = "fulfilled" /\ pc = "done") =>
          /\ Count("extractInfo") = 1
          /\ Cardinality(ValidatorCalls) = 1
          /\ checkPromise = "fulfilled"

C10_Witness ==
    /\ pc = "done"
    /\ ~IsNull(issue)
    /\ IsNull(issue.val.body)
    /\ ~IsNull(issue.val.user)
    /\ IsNull(issue.val.user.val.login)
    /\ Cardinality(ValidatorCalls) = 1
    /\ \E k \in Ops("extractInfo") :
          calls[k].arg.body = <<>> /\ calls[k].arg.author = ""
====
